---- MODULE Spec2Model ----
(***************************************************************************)
(* Model of the SmartMeet front-end: the App component (src/App.tsx), the  *)
(* Gemini service functions (src/unnamed/part_001: uploadMediaFile,        *)
(* analyzeMeetingMedia, chatWithMeetingContext, researchTopic,             *)
(* analyzeUploadedImage) and the ChatInterface component                   *)
(* (src/unnamed/part_000).  Every action is one run of a handler or of a   *)
(* continuation between two awaits.  The remote service is the             *)
(* environment: its answers are drawn with \E from small sets.             *)
(***************************************************************************)
EXTENDS Integers, Sequences, FiniteSets

VARIABLES
    \* ---- App (src/App.tsx) ----
    status,          \* AnalysisStatus
    analysisResult,  \* MeetingAnalysisResult | null
    progressText,
    errorMsg,
    \* ---- environment ----
    apiKey,          \* process.env.API_KEY is set
    \* ---- the flow started by handleFileUpload ----
    pc,              \* the await the flow is suspended at
    file,            \* file.type of the selected file
    uploadResult,    \* what ai.files.upload resolved with: <<>> or <<response>>
    fileData,        \* local variable fileData of uploadMediaFile
    waits,           \* 2-second waits performed by the poll loop
    fetches,         \* ai.files.get calls issued by the poll loop
    observed,        \* what the remote answered: upload, then every status fetch
    events,          \* progress reports and remote calls, in order
    ingest,          \* how uploadMediaFile ended
    response,        \* how generateContent of analyzeMeetingMedia ended
    analyze,         \* how analyzeMeetingMedia ended
    \* ---- ChatInterface (src/unnamed/part_000) ----
    contextData,     \* the prop contextData
    messages,        \* the conversation log
    input,           \* the text of the textarea
    isLoading,
    useSearch,
    inflight,        \* the service calls of handleSend that have not ended yet
    sends,           \* runs of handleSend that sent a message
    lastCall         \* the service call that ended last: what the provider
                     \* answered and how the service function ended

appVars  == <<status, analysisResult, progressText, errorMsg>>
flowVars == <<pc, file, uploadResult, fileData, waits, fetches, observed, events,
              ingest, response, analyze>>
chatVars == <<contextData, messages, input, isLoading, useSearch, inflight, sends,
              lastCall>>
vars     == <<status, analysisResult, progressText, errorMsg, apiKey,
              pc, file, uploadResult, fileData, waits, fetches, observed, events,
              ingest, response, analyze,
              contextData, messages, input, isLoading, useSearch, inflight, sends,
              lastCall>>

-----------------------------------------------------------------------------
(* Bounds *)

\* most 2-second waits of one upload (the loop of the code has no cap)
MaxPolls == 3

-----------------------------------------------------------------------------
(* JavaScript values *)

\* the value undefined of a string-valued property
Undefined == "<undefined>"

\* !v for a string-valued property
Falsy(v) == v = Undefined \/ v = ""

\* a ?? b on optional values: an option is <<>> (null or undefined) or <<v>>
Coalesce(a, b) == IF a # <<>> THEN a[1] ELSE b

\* a || b on string values
OrElse(a, b) == IF Falsy(a) THEN b ELSE a

-----------------------------------------------------------------------------
(* AnalysisStatus *)

IDLE      == "IDLE"
UPLOADING == "UPLOADING"
THINKING  == "THINKING"
ANALYZING == "ANALYZING"
COMPLETED == "COMPLETED"
ERROR     == "ERROR"

AnalysisStatus == {IDLE, UPLOADING, THINKING, ANALYZING, COMPLETED, ERROR}

-----------------------------------------------------------------------------
(* The remote file resource *)

PROCESSING == "PROCESSING"
ACTIVE     == "ACTIVE"
FAILED     == "FAILED"

FileNames  == {Undefined, "files/a"}
FileUris   == {Undefined, "gs://a"}
FileStates == {Undefined, "STATE_UNSPECIFIED", PROCESSING, ACTIVE, FAILED}
FileMimes  == {Undefined, "video/webm"}

\* the file resource as the Files API reports it
FileData == [name : FileNames, uri : FileUris, state : FileStates, mimeType : FileMimes]

NoFileData == [name |-> Undefined, uri |-> Undefined, state |-> Undefined,
               mimeType |-> Undefined]

\* a decoy: the direct properties of a response that wraps the resource in .file
Decoy == [name |-> "files/a", uri |-> "gs://a", state |-> ACTIVE, mimeType |-> Undefined]

Direct(f)     == [file |-> <<>>, name |-> f.name, uri |-> f.uri, state |-> f.state,
                  mimeType |-> f.mimeType]
Wrapped(f, d) == [file |-> <<f>>, name |-> d.name, uri |-> d.uri, state |-> d.state,
                  mimeType |-> d.mimeType]

\* what ai.files.upload and ai.files.get resolve with: the resource itself, or
\* the resource in a .file envelope
FileResponses ==
    {Direct(f) : f \in FileData}
        \cup {Wrapped(f, d) : f \in FileData, d \in {NoFileData, Decoy}}

\* the properties of a response read as a file resource
AsFileData(r) == [name |-> r.name, uri |-> r.uri, state |-> r.state,
                  mimeType |-> r.mimeType]

\* uploadResult.file ?? uploadResult
Unwrap(r) == Coalesce(r.file, AsFileData(r))

\* the validation with the URI test forgotten
InvalidUploadNameOnly(fd) == Falsy(fd.name)

\* !fileData || !fileData.name || !fileData.uri
InvalidUpload(fd) == Falsy(fd.name) \/ Falsy(fd.uri)

-----------------------------------------------------------------------------
(* Files the user can select *)

MediaTypes == {"video/mp4", "audio/mpeg"}
ImageTypes == {"image/png"}
NoFile     == "<no file>"

IsImage(t) == t \in ImageTypes

-----------------------------------------------------------------------------
(* Messages *)

MsgUploading  == "Uploading media to safe storage..."
MsgProcessing == "Processing media file (this may take a moment)..."
MsgThinking   == "Deep Thinking & Analysis..."
MsgImage      == "Analyzing image..."

ErrNoKey        == "API Key not found"
ErrInvalid      == "Upload failed: Invalid response from Gemini API."
ErrFailed       == "File processing failed on Gemini servers."
ErrMissingUri   == "File processing incomplete: Missing URI."
ErrNoResponse   == "No response from AI"
ErrParse        == "Failed to parse analysis results."
ErrTypeError    == "TypeError: Cannot read properties of null"
ErrRemote       == "RemoteServiceError"

\* msg.includes("Thinking")
IncludesThinking(msg) == msg = MsgThinking

-----------------------------------------------------------------------------
(* The analysis response text and JSON.parse *)

Required == {"title", "summary", "transcript", "actionItems", "sentimentData", "topics"}
Fields   == Required \cup {"keyDecisions"}

FieldOrder == <<"title", "summary", "keyDecisions", "transcript", "actionItems",
                "sentimentData", "topics">>

IsField(tok) == tok \in Fields

\* a text is a sequence of tokens; the text of a JSON object with the keys K
Doc(K) == <<"{">> \o SelectSeq(FieldOrder, LAMBDA f : f \in K) \o <<"}">>

\* the key sets of the JSON objects the remote answers with: complete, complete
\* without the optional keyDecisions, one required field missing, empty
KeySets == {Fields, Required, {}} \cup {Required \ {f} : f \in Required}

\* response.text: <<>> is undefined, <<t>> is the text t
AnalysisTexts ==
    {<<>>, << <<>> >>, << <<"null">> >>, << <<"I", "cannot", "help">> >>,
     << <<"{", "title", "summary">> >>}
        \cup {<<Doc(K)>> : K \in KeySets}

\* the value null
JsNull == [kind |-> "null", keys |-> {}]

\* an object, by the keys it has
JsObject(K) == [kind |-> "object", keys |-> K]

\* JSON.parse(t): ok with the value, or a SyntaxError
JSONParse(t) ==
    IF t = <<"null">>
    THEN [ok |-> TRUE, value |-> JsNull]
    ELSE IF /\ Len(t) >= 2
            /\ t[1] = "{"
            /\ t[Len(t)] = "}"
            /\ \A i \in 2..(Len(t) - 1) : IsField(t[i])
         THEN [ok |-> TRUE, value |-> JsObject({t[i] : i \in 2..(Len(t) - 1)})]
         ELSE [ok |-> FALSE, value |-> JsNull]

\* !text
EmptyText(text) == text = <<>> \/ text[1] = <<>>

-----------------------------------------------------------------------------
(* How a service function ended *)

NotEnded     == [st |-> "none", value |-> JsNull, error |-> ""]
Returned(v)  == [st |-> "returned", value |-> v, error |-> ""]
Threw(msg)   == [st |-> "threw", value |-> JsNull, error |-> msg]

NoIngest              == [st |-> "none", uri |-> Undefined, mimeType |-> Undefined,
                          error |-> ""]
IngestReturned(u, m)  == [st |-> "returned", uri |-> u, mimeType |-> m, error |-> ""]
IngestThrew(msg)      == [st |-> "threw", uri |-> Undefined, mimeType |-> Undefined,
                          error |-> msg]

\* the outcome of a generateContent call: text is <<>> (undefined) or <<t>>
NoResponse     == [st |-> "none", text |-> <<>>]
Resolved(text) == [st |-> "resolved", text |-> text]
Rejected       == [st |-> "rejected", text |-> <<>>]

-----------------------------------------------------------------------------
(* Initial state: the App as constructed, no flow started *)

AppInit ==
    /\ status = IDLE
    /\ analysisResult = JsNull
    /\ progressText = ""
    /\ errorMsg = ""
    /\ apiKey \in BOOLEAN
    /\ pc = "idle"
    /\ file = NoFile
    /\ uploadResult = <<>>
    /\ fileData = NoFileData
    /\ waits = 0
    /\ fetches = 0
    /\ observed = <<>>
    /\ events = <<>>
    /\ ingest = NoIngest
    /\ response = NoResponse
    /\ analyze = NotEnded

-----------------------------------------------------------------------------
(* App: the progress callback and the catch of handleFileUpload *)

\* (msg) => { if (msg.includes("Thinking")) setStatus(THINKING); setProgressText(msg) }
StatusOnProgress(msg, s) == IF IncludesThinking(msg) THEN THINKING ELSE s

\* analyzeMeetingMedia rejected with msg: catch (error) of handleFileUpload
MeetingFlowFails(msg) ==
    /\ analyze' = Threw(msg)
    /\ errorMsg' = msg
    /\ status' = ERROR
    /\ pc' = "idle"
    /\ UNCHANGED analysisResult

-----------------------------------------------------------------------------
(* uploadMediaFile after fileData is set *)

\* a throw inside uploadMediaFile: logged by its catch, thrown again, and
\* analyzeMeetingMedia rejects with it
IngestThrows(fd, ev, msg) ==
    /\ fileData' = fd
    /\ events' = ev
    /\ ingest' = IngestThrew(msg)
    /\ MeetingFlowFails(msg)
    /\ UNCHANGED <<progressText, waits>>

\* the request issued before the "Deep Thinking" report
IngestReturnsRequestFirst(fd, ev) ==
    /\ fileData' = fd
    /\ ingest' = IngestReturned(fd.uri, OrElse(fd.mimeType, file))
    /\ events' = ev \o <<"call:generate", "progress:deep">>
    /\ status' = StatusOnProgress(MsgThinking, status)
    /\ progressText' = MsgThinking
    /\ pc' = "awaitAnalysis"
    /\ UNCHANGED <<waits, analyze, errorMsg, analysisResult>>

\* return { uri, mimeType }, then analyzeMeetingMedia up to its await: the
\* "Deep Thinking" report and the generateContent request
IngestReturns(fd, ev) ==
    /\ fileData' = fd
    /\ ingest' = IngestReturned(fd.uri, OrElse(fd.mimeType, file))
    /\ events' = ev \o <<"progress:deep", "call:generate">>
    /\ status' = StatusOnProgress(MsgThinking, status)
    /\ progressText' = MsgThinking
    /\ pc' = "awaitAnalysis"
    /\ UNCHANGED <<waits, analyze, errorMsg, analysisResult>>

\* one more turn of the loop: the "processing" report and the 2-second timer
PollAgain(fd, ev) ==
    /\ waits < MaxPolls
    /\ fileData' = fd
    /\ events' = ev \o <<"progress:processing", "wait">>
    /\ waits' = waits + 1
    /\ status' = StatusOnProgress(MsgProcessing, status)
    /\ progressText' = MsgProcessing
    /\ pc' = "waiting"
    /\ UNCHANGED <<ingest, analyze, errorMsg, analysisResult>>

\* the loop written as while (fileData.state !== "ACTIVE")
LoopHeadUntilActive(fd, ev) ==
    IF fd.state # ACTIVE /\ fd.state # FAILED THEN PollAgain(fd, ev)
    ELSE IF fd.state = FAILED THEN IngestThrows(fd, ev, ErrFailed)
    ELSE IF Falsy(fd.uri) THEN IngestThrows(fd, ev, ErrMissingUri)
    ELSE IngestReturns(fd, ev)

\* the head of while (fileData.state === "PROCESSING") and what follows the loop
LoopHead(fd, ev) ==
    IF fd.state = PROCESSING THEN PollAgain(fd, ev)
    ELSE IF fd.state = FAILED THEN IngestThrows(fd, ev, ErrFailed)
    ELSE IF Falsy(fd.uri) THEN IngestThrows(fd, ev, ErrMissingUri)
    ELSE IngestReturns(fd, ev)

\* the validation of the upload response, then the loop
AfterUpload(fd, ev) ==
    IF InvalidUpload(fd) THEN IngestThrows(fd, ev, ErrInvalid) ELSE LoopHead(fd, ev)

-----------------------------------------------------------------------------
(* handleFileUpload: a file is chosen in the upload screen *)

\* the variables of a flow, as a new flow finds them
NewFlow(f) ==
    /\ file' = f
    /\ uploadResult' = <<>>
    /\ fileData' = NoFileData
    /\ waits' = 0
    /\ fetches' = 0
    /\ observed' = <<>>
    /\ ingest' = NoIngest
    /\ response' = NoResponse

\* the image branch, up to the await inside analyzeUploadedImage
StartImage(f) ==
    /\ NewFlow(f)
    /\ errorMsg' = ""
    /\ analysisResult' = JsNull
    /\ progressText' = MsgImage
    /\ events' = <<>>
    /\ analyze' = NotEnded
    /\ IF apiKey
       THEN status' = ANALYZING /\ pc' = "readImage"
       ELSE status' = ERROR /\ pc' = "idle"

\* the meeting branch, up to the await of ai.files.upload
StartMeeting(f) ==
    /\ NewFlow(f)
    /\ analysisResult' = JsNull
    /\ IF apiKey
       THEN /\ status' = StatusOnProgress(MsgUploading, UPLOADING)
            /\ progressText' = MsgUploading
            /\ errorMsg' = ""
            /\ events' = <<"progress:uploading", "call:upload">>
            /\ analyze' = NotEnded
            /\ pc' = "awaitUpload"
       ELSE /\ MeetingFlowFails(ErrNoKey)
            /\ events' = <<>>
            /\ UNCHANGED progressText

\* the file input is rendered only while status is IDLE or ERROR
HandleFileUpload ==
    /\ status \in {IDLE, ERROR}
    /\ \E f \in MediaTypes \cup ImageTypes \cup {NoFile} :
          IF f = NoFile THEN UNCHANGED vars
          ELSE IF IsImage(f) THEN StartImage(f) /\ UNCHANGED <<apiKey, chatVars>>
          ELSE StartMeeting(f) /\ UNCHANGED <<apiKey, chatVars>>

-----------------------------------------------------------------------------
(* uploadMediaFile: the continuations of its awaits *)

\* ai.files.upload resolves with a response object
UploadResolves ==
    /\ UNCHANGED chatVars
    /\ pc = "awaitUpload"
    /\ \E r \in FileResponses :
          /\ uploadResult' = <<r>>
          /\ observed' = <<Unwrap(r).state>>
          /\ AfterUpload(Unwrap(r), events)
    /\ UNCHANGED <<apiKey, file, fetches, response>>

\* ai.files.upload resolves with null (reading .file throws) or rejects
UploadFails ==
    /\ UNCHANGED chatVars
    /\ pc = "awaitUpload"
    /\ \E msg \in {ErrTypeError, ErrRemote} :
          /\ observed' = <<"error">>
          /\ IngestThrows(fileData, events, msg)
    /\ UNCHANGED <<apiKey, file, fetches, uploadResult, response>>

\* the 2-second timer fires: ai.files.get is called (the counters and the log
\* keep the turns PollAgain recorded: each recorded wait has one fetch)
WaitElapses ==
    /\ UNCHANGED chatVars
    /\ pc = "waiting"
    /\ pc' = "awaitGet"
    /\ IF fetches < waits
       THEN fetches' = fetches + 1 /\ events' = Append(events, "call:get")
       ELSE UNCHANGED <<fetches, events>>
    /\ UNCHANGED <<appVars, apiKey, file, uploadResult, fileData, waits, observed,
                   ingest, response, analyze>>

\* ai.files.get resolves with a response object
GetResolves ==
    /\ UNCHANGED chatVars
    /\ pc = "awaitGet"
    /\ \E r \in FileResponses :
          /\ observed' = Append(observed, Unwrap(r).state)
          /\ LoopHead(Unwrap(r), events)
    /\ UNCHANGED <<apiKey, file, fetches, uploadResult, response>>

\* the loop without its try/catch: the error of the status fetch ends the upload
AbortPolling(ev) == IngestThrows(fileData, ev, ErrRemote)

\* catch (e) inside the loop: fileData keeps its value and the loop goes on
KeepPolling(ev) == LoopHead(fileData, ev)

\* ai.files.get rejects, or resolves with null (reading .file throws)
GetFails ==
    /\ UNCHANGED chatVars
    /\ pc = "awaitGet"
    /\ observed' = Append(observed, "error")
    /\ KeepPolling(events)
    /\ UNCHANGED <<apiKey, file, fetches, uploadResult, response>>

\* a loop with a retry cap: after MaxPolls turns the upload gives up
PollGivesUp ==
    /\ UNCHANGED chatVars
    /\ pc = "awaitGet"
    /\ waits = MaxPolls
    /\ IngestThrows(fileData, events, ErrRemote)
    /\ UNCHANGED <<apiKey, file, uploadResult, fetches, observed, response>>

\* the turns of the loop after the first MaxPolls: the loop has no counter, so
\* a fetch that fails or still answers PROCESSING leads to the report and the
\* timer again; these turns are not added to waits, fetches, observed, events
PollBeyond ==
    /\ UNCHANGED chatVars
    /\ pc = "awaitGet"
    /\ waits = MaxPolls
    /\ \E fd \in {fileData} \cup {Unwrap(r) : r \in FileResponses} :
          /\ fd.state = PROCESSING
          /\ fileData' = fd
    /\ status' = StatusOnProgress(MsgProcessing, status)
    /\ progressText' = MsgProcessing
    /\ pc' = "waiting"
    /\ UNCHANGED <<analysisResult, errorMsg, apiKey, file, uploadResult, waits,
                   fetches, observed, events, ingest, response, analyze>>

-----------------------------------------------------------------------------
(* analyzeMeetingMedia: the continuation of generateContent *)

\* return JSON.parse(text), then setAnalysisResult and setStatus(COMPLETED)
AnalyzeReturns(v) ==
    /\ analyze' = Returned(v)
    /\ analysisResult' = v
    /\ status' = COMPLETED
    /\ pc' = "idle"
    /\ UNCHANGED errorMsg

\* the response handling without if (!text): JSON.parse(undefined) throws
ParseResponseNoEmptyCheck(text) ==
    IF ~EmptyText(text) /\ JSONParse(text[1]).ok
    THEN AnalyzeReturns(JSONParse(text[1]).value)
    ELSE MeetingFlowFails(ErrParse)

\* const text = response.text; if (!text) throw; try { return JSON.parse(text) }
\* catch { throw "Failed to parse analysis results." }
ParseResponse(text) ==
    IF EmptyText(text) THEN MeetingFlowFails(ErrNoResponse)
    ELSE IF JSONParse(text[1]).ok THEN AnalyzeReturns(JSONParse(text[1]).value)
    ELSE MeetingFlowFails(ErrParse)

GenerateResolves ==
    /\ UNCHANGED chatVars
    /\ pc = "awaitAnalysis"
    /\ \E text \in AnalysisTexts :
          /\ response' = Resolved(text)
          /\ ParseResponse(text)
    /\ UNCHANGED <<progressText, apiKey, file, uploadResult, fileData, waits, fetches,
                   observed, events, ingest>>

GenerateRejects ==
    /\ UNCHANGED chatVars
    /\ pc = "awaitAnalysis"
    /\ response' = Rejected
    /\ MeetingFlowFails(ErrRemote)
    /\ UNCHANGED <<progressText, apiKey, file, uploadResult, fileData, waits, fetches,
                   observed, events, ingest>>

-----------------------------------------------------------------------------
(* The image branch of handleFileUpload *)

\* fileToGenerativePart: the FileReader ends; on success generateContent is called
ImageRead ==
    /\ UNCHANGED chatVars
    /\ pc = "readImage"
    /\ \E ok \in BOOLEAN :
          IF ok THEN pc' = "awaitImage" /\ UNCHANGED status
          ELSE pc' = "idle" /\ status' = ERROR
    /\ UNCHANGED <<analysisResult, progressText, errorMsg, apiKey, file, uploadResult,
                   fileData, waits, fetches, observed, events, ingest, response,
                   analyze>>

\* generateContent ends: alert and IDLE, or the catch and ERROR
ImageAnalyzed ==
    /\ UNCHANGED chatVars
    /\ pc = "awaitImage"
    /\ \E ok \in BOOLEAN : status' = IF ok THEN IDLE ELSE ERROR
    /\ pc' = "idle"
    /\ UNCHANGED <<analysisResult, progressText, errorMsg, apiKey, file, uploadResult,
                   fileData, waits, fetches, observed, events, ingest, response,
                   analyze>>

-----------------------------------------------------------------------------
(* The dashboard *)

\* onReset of AnalysisDashboard, rendered when COMPLETED with a result
Reset ==
    /\ UNCHANGED chatVars
    /\ status = COMPLETED
    /\ analysisResult # JsNull
    /\ status' = IDLE
    /\ UNCHANGED <<analysisResult, progressText, errorMsg, apiKey, flowVars>>

-----------------------------------------------------------------------------
(* Long strings: contextData is a sequence of runs, each a character        *)
(* repeated n >= 1 times, adjacent runs of different characters             *)

Run(c, k) == [ch |-> c, n |-> k]

Min(a, b) == IF a <= b THEN a ELSE b
Max(a, b) == IF a >= b THEN a ELSE b

RECURSIVE StrLen(_)
\* s.length
StrLen(s) == IF s = <<>> THEN 0 ELSE s[1].n + StrLen(Tail(s))

RECURSIVE Take(_, _)
\* the first k characters of s
Take(s, k) ==
    IF k <= 0 \/ s = <<>> THEN <<>>
    ELSE IF s[1].n <= k THEN <<s[1]>> \o Take(Tail(s), k - s[1].n)
    ELSE <<Run(s[1].ch, k)>>

RECURSIVE Drop(_, _)
\* s without its first k characters
Drop(s, k) ==
    IF k <= 0 \/ s = <<>> THEN s
    ELSE IF s[1].n <= k THEN Drop(Tail(s), k - s[1].n)
    ELSE <<Run(s[1].ch, s[1].n - k)>> \o Tail(s)

\* s.substring(a, b): both ends clamped to 0..s.length, swapped when a > b
Substring(s, a, b) ==
    LET lo == Max(0, Min(Min(a, b), StrLen(s)))
        hi == Max(0, Min(Max(a, b), StrLen(s)))
    IN  Take(Drop(s, lo), hi - lo)

\* the length contextData is cut to
ContextLimit == 30000

\* the values the prop contextData is given: empty, short, and around the limit
ContextChoices ==
    {<<>>,
     <<Run("a", 3), Run("b", 2)>>,
     <<Run("a", ContextLimit - 1), Run("b", 1)>>,
     <<Run("a", ContextLimit - 1), Run("b", 1), Run("c", 1)>>,
     <<Run("a", ContextLimit - 1), Run("b", 1), Run("c", 1), Run("d", ContextLimit)>>}

InstructionHead == "You are a helpful meeting assistant. Answer questions based on the following meeting context data: "
InstructionTail == "... (truncated if too long). Be concise and helpful."

\* the template literal cut one character late
SystemInstructionOffByOne(ctx) ==
    [head |-> InstructionHead, context |-> Substring(ctx, 0, ContextLimit + 1),
     tail |-> InstructionTail]

\* the template literal of lines 197-199
SystemInstruction(ctx) ==
    [head |-> InstructionHead, context |-> Substring(ctx, 0, ContextLimit),
     tail |-> InstructionTail]

NoInstruction == [head |-> "", context |-> <<>>, tail |-> ""]

-----------------------------------------------------------------------------
(* The follow-up services: chatWithMeetingContext and researchTopic *)

FallbackChat     == "I couldn't generate a response."
FallbackResearch == "No results found."
Apology          == "Sorry, I encountered an error processing your request."
Greeting         == "Hello! I've analyzed the meeting. Ask me anything about specific decisions, action items, or what a specific person said."

\* result.text / response.text of the provider
ReplyTexts   == {Undefined, "", "answer"}
RemoteErrors == {"503 unavailable", "network error"}

\* a citation link, and the grounding chunks: web and entry_point are <<>>
\* (absent) or <<link>>
LinkA == [title |-> "A", uri |-> "http://a"]
LinkB == [title |-> "B", uri |-> "http://b"]
Chunk(w, e) == [web |-> w, entry_point |-> e]
Chunks == {Chunk(<<>>, <<>>), Chunk(<<LinkA>>, <<>>), Chunk(<<>>, <<LinkB>>),
           Chunk(<<LinkA>>, <<LinkB>>)}

\* most grounding chunks of one response
MaxChunks == 2

RECURSIVE SeqsUpTo(_, _)
\* the sequences over S of length at most k
SeqsUpTo(S, k) ==
    IF k = 0 THEN {<<>>}
    ELSE SeqsUpTo(S, k - 1)
            \cup {Append(q, x) : q \in {p \in SeqsUpTo(S, k - 1) : Len(p) = k - 1}, x \in S}

\* how a provider call ended; chunks is <<>> (some level of
\* candidates[0].groundingMetadata.groundingChunks is absent) or <<array>>
NoOutcome == [st |-> "none", text |-> Undefined, error |-> "", chunks |-> <<>>]
Answered(t, c) == [st |-> "resolved", text |-> t, error |-> "", chunks |-> c]
Failed(e)      == [st |-> "rejected", text |-> Undefined, error |-> e, chunks |-> <<>>]

ChatOutcomes ==
    {Answered(t, <<>>) : t \in ReplyTexts} \cup {Failed(e) : e \in RemoteErrors}

ResearchOutcomes ==
    {Answered(t, c) : t \in {Undefined, "answer"},
                      c \in {<<>>} \cup {<<q>> : q \in SeqsUpTo(Chunks, MaxChunks)}}
        \cup {Failed(e) : e \in RemoteErrors}

\* the answers drawn for the calls that end after the first call of a
\* session has ended: one reply and one failure
LaterOutcomes == {Answered("answer", <<>>), Failed("network error")}

\* how a service function ended
SvcReturned(t, src) == [st |-> "returned", text |-> t, sources |-> src, error |-> ""]
SvcThrew(e)         == [st |-> "threw", text |-> Undefined, sources |-> <<>>, error |-> e]

\* chatWithMeetingContext with a catch that answers with the fallback
ChatWithMeetingContextCatching(o) ==
    IF o.st = "rejected" THEN SvcReturned(FallbackChat, <<>>)
    ELSE SvcReturned(OrElse(o.text, FallbackChat), <<>>)

\* chatWithMeetingContext from the end of chat.sendMessage: no catch, and
\* return result.text || "I couldn't generate a response."
ChatWithMeetingContext(o) ==
    IF o.st = "rejected" THEN SvcThrew(o.error)
    ELSE SvcReturned(OrElse(o.text, FallbackChat), <<>>)

\* researchTopic from the end of generateContent: no catch, text is
\* response.text || "No results found.", sources the grounding chunks || []
ResearchTopic(o) ==
    IF o.st = "rejected" THEN SvcThrew(o.error)
    ELSE SvcReturned(OrElse(o.text, FallbackResearch), Coalesce(o.chunks, <<>>))

-----------------------------------------------------------------------------
(* ChatInterface *)

\* the texts the user types
Inputs == {"", "  ", " q1 "}

\* input.trim()
Trim(t) == CASE t = "  " -> "" [] t = " q1 " -> "q1" [] OTHER -> t

\* most messages sent from one ChatInterface
MaxSends == 2

\* a ChatMessage (ids left out); sources is <<>> (undefined) or <<links>>
Message(r, c, src) == [role |-> r, content |-> c, sources |-> src]

\* s.web || s.entry_point
WebOrEntry(c) == IF c.web # <<>> THEN c.web ELSE c.entry_point

\* the mapping without .filter(Boolean)
MapSourcesUnfiltered(src) ==
    [i \in 1..Len(src) |-> IF WebOrEntry(src[i]) = <<>> THEN [title |-> Undefined, uri |-> Undefined]
                           ELSE WebOrEntry(src[i])[1]]

\* sources.map(s => s.web || s.entry_point).filter(Boolean)
MapSources(src) ==
    LET mapped == [i \in 1..Len(src) |-> WebOrEntry(src[i])]
        kept   == SelectSeq(mapped, LAMBDA x : x # <<>>)
    IN  [i \in 1..Len(kept) |-> kept[i][1]]

\* the model message of lines 49-54
ModelMessage(res) ==
    Message("model", res.text,
            IF Len(res.sources) > 0 THEN <<MapSources(res.sources)>> ELSE <<>>)

\* the message handleSend appends when its service call has ended: the model
\* message, or the apology of the catch
ReplyMessage(res) ==
    IF res.st = "threw" THEN Message("model", Apology, <<>>) ELSE ModelMessage(res)

\* the service call handleSend makes for the message text t: its arguments,
\* and for the chat the systemInstruction of the session it creates
Request(t) ==
    IF useSearch
    THEN [fn |-> "research", message |-> t, history |-> <<>>, contextData |-> <<>>,
          instruction |-> NoInstruction]
    ELSE [fn |-> "chat", message |-> t,
          history |-> [i \in 1..Len(messages) |->
                          [role |-> messages[i].role, content |-> messages[i].content]],
          contextData |-> contextData,
          instruction |-> SystemInstruction(contextData)]

NoCall == [n |-> 0, fn |-> "none", outcome |-> NoOutcome, result |-> SvcThrew("")]

\* the state of a ChatInterface as mounted with the prop ctx
ChatMounted(ctx) ==
    /\ contextData = ctx
    /\ messages = <<Message("model", Greeting, <<>>)>>
    /\ input = ""
    /\ isLoading = FALSE
    /\ useSearch = FALSE
    /\ inflight = <<>>
    /\ sends = 0
    /\ lastCall = NoCall

\* handleSend, up to its await; without an API key getAiClient throws inside
\* the service function and the catch and finally run at once
HandleSend ==
    IF Trim(input) = "" THEN UNCHANGED vars
    ELSE /\ sends < MaxSends
         /\ sends' = sends + 1
         /\ input' = ""
         /\ IF apiKey
            THEN /\ messages' = Append(messages, Message("user", input, <<>>))
                 /\ isLoading' = TRUE
                 /\ inflight' = Append(inflight, Request(input))
                 /\ UNCHANGED lastCall
            ELSE /\ messages' = messages \o <<Message("user", input, <<>>),
                                             ReplyMessage(SvcThrew(ErrNoKey))>>
                 /\ isLoading' = FALSE
                 /\ lastCall' = [n |-> lastCall.n + 1, fn |-> Request(input).fn,
                                 outcome |-> NoOutcome, result |-> SvcThrew(ErrNoKey)]
                 /\ UNCHANGED inflight
         /\ UNCHANGED <<appVars, apiKey, flowVars, contextData, useSearch>>

\* the send button: disabled={!input.trim() || isLoading}
ClickSend ==
    /\ Trim(input) # ""
    /\ ~isLoading
    /\ HandleSend

\* handleKeyDown: Enter sends unless Shift is held
HandleKeyDown ==
    \E shiftKey \in BOOLEAN : IF shiftKey THEN UNCHANGED vars ELSE HandleSend

\* onChange of the textarea
SetInput ==
    /\ \E t \in Inputs : t # input /\ input' = t
    /\ UNCHANGED <<appVars, apiKey, flowVars, contextData, messages, isLoading,
                   useSearch, inflight, sends, lastCall>>

\* the search toggle
ToggleSearch ==
    /\ useSearch' = ~useSearch
    /\ UNCHANGED <<appVars, apiKey, flowVars, contextData, messages, input, isLoading,
                   inflight, sends, lastCall>>

\* the i-th call in flight ends with res after the provider answered o: the
\* rest of handleSend (model message or apology, then finally)
CallEnds(i, o, res) ==
    /\ messages' = Append(messages, ReplyMessage(res))
    /\ isLoading' = FALSE
    /\ inflight' = [j \in 1..(Len(inflight) - 1) |->
                        IF j < i THEN inflight[j] ELSE inflight[j + 1]]
    /\ lastCall' = [n |-> lastCall.n + 1, fn |-> inflight[i].fn, outcome |-> o,
                    result |-> res]
    /\ UNCHANGED <<appVars, apiKey, flowVars, contextData, input, useSearch, sends>>

\* chat.sendMessage of a call in flight ends
ChatEnds ==
    \E i \in 1..Len(inflight) :
        /\ inflight[i].fn = "chat"
        /\ \E o \in (IF lastCall.n = 0 THEN ChatOutcomes ELSE LaterOutcomes) :
              CallEnds(i, o, ChatWithMeetingContext(o))

\* generateContent of a researchTopic call in flight ends
ResearchEnds ==
    \E i \in 1..Len(inflight) :
        /\ inflight[i].fn = "research"
        /\ \E o \in (IF lastCall.n = 0 THEN ResearchOutcomes ELSE LaterOutcomes) :
              CallEnds(i, o, ResearchTopic(o))

ChatInit ==
    /\ AppInit
    /\ \E ctx \in ContextChoices : ChatMounted(ctx)

ChatNext ==
    \/ SetInput
    \/ ToggleSearch
    \/ ClickSend
    \/ HandleKeyDown
    \/ ChatEnds
    \/ ResearchEnds

ChatSpec == ChatInit /\ [][ChatNext]_vars

-----------------------------------------------------------------------------

\* the App alone: no ChatInterface is mounted
Init == AppInit /\ ChatMounted(<<>>)

Next ==
    \/ HandleFileUpload
    \/ UploadResolves
    \/ UploadFails
    \/ WaitElapses
    \/ GetResolves
    \/ GetFails
    \/ GenerateResolves
    \/ GenerateRejects
    \/ ImageRead
    \/ ImageAnalyzed
    \/ Reset

Spec == Init /\ [][Next]_vars

\* The App with the poll loop followed beyond MaxPolls turns, and the
\* scheduling of the browser: a pending call settles, a set timer fires.
\* Nothing obliges the user to choose a file or to leave the dashboard, and
\* nothing obliges the provider to answer anything but PROCESSING.
LiveNext == Next \/ PollBeyond

Settles ==
    /\ WF_vars(UploadResolves \/ UploadFails)
    /\ WF_vars(WaitElapses)
    /\ WF_vars(GetResolves \/ GetFails \/ PollBeyond)
    /\ WF_vars(GenerateResolves \/ GenerateRejects)
    /\ WF_vars(ImageRead)
    /\ WF_vars(ImageAnalyzed)

LiveSpec == Init /\ [][LiveNext]_vars /\ Settles

TypeOK ==
    /\ status \in AnalysisStatus
    /\ pc \in {"idle", "awaitUpload", "waiting", "awaitGet", "awaitAnalysis",
               "readImage", "awaitImage"}
    /\ fileData \in FileData
    /\ waits \in 0..MaxPolls
    /\ fetches \in 0..MaxPolls

-----------------------------------------------------------------------------
(* Properties of the upload and analysis flow (specification Spec) *)

\* number of occurrences of e in the sequence q
Count(q, e) == Cardinality({i \in 1..Len(q) : q[i] = e})

\* an answer of the remote that leaves the handle in PROCESSING: the state
\* PROCESSING itself, or a status fetch that failed
KeepsProcessing(o) == o = PROCESSING \/ o = "error"

\* the resource a response carries: the one in its .file envelope when it
\* has one, its own properties otherwise
Carried(r) == IF r.file = <<>> THEN r ELSE r.file[1]

\* the resource the response carries has no identifier or no URI
LacksNameOrUri(r) ==
    \/ Carried(r).name \in {Undefined, ""}
    \/ Carried(r).uri \in {Undefined, ""}

\* the upload call answered with a resource that has an identifier and a URI
UploadAccepted == uploadResult # <<>> /\ ~LacksNameOrUri(uploadResult[1])

\* C1: whenever uploadMediaFile has returned, the remote state of its handle
\* is ACTIVE and the URI it returns is non-empty; it never returns while the
\* last observed state is PROCESSING or FAILED, nor for any other state
\* (absent, unrecognised).
C1_ReturnsOnlyActive ==
    ingest.st = "returned" => fileData.state = ACTIVE /\ ~Falsy(ingest.uri)

\* C2: with the observations PROCESSING, PROCESSING, ACTIVE (the upload
\* response first) the loop has made exactly two waits and two status fetches
\* when uploadMediaFile ends, and it ends on the third observation, returning
\* when that observation carries the URI.  In general, once an upload whose
\* response was accepted has ended, waits = fetches = the number of
\* observations before the first one that does not keep the handle in
\* PROCESSING, which is the last observation.
C2_WaitsMatchProcessing ==
    /\ (observed = <<PROCESSING, PROCESSING, ACTIVE>> /\ pc \notin {"waiting", "awaitGet"})
          => /\ waits = 2
             /\ fetches = 2
             /\ ingest.st # "none"
             /\ (~Falsy(fileData.uri) => ingest.st = "returned")
    /\ (UploadAccepted /\ ingest.st # "none")
          => /\ waits = Len(observed) - 1
             /\ fetches = waits
             /\ \A i \in 1..(Len(observed) - 1) : KeepsProcessing(observed[i])
             /\ ~KeepsProcessing(observed[Len(observed)])
    /\ (UploadAccepted /\ ingest.st = "none")
          => /\ \A i \in 1..Len(observed) : KeepsProcessing(observed[i])
             /\ waits = Len(observed)

C2_Witness ==
    /\ observed = <<PROCESSING, PROCESSING, ACTIVE>>
    /\ ingest.st = "returned"
    /\ waits = 2
    /\ fetches = 2

\* C3: a status fetch that fails does not end uploadMediaFile: the handle is
\* kept as it was (PROCESSING), the loop reports, waits and fetches again, and
\* an ACTIVE answer with a URI after it makes the call return.  Every other
\* failure of the flow (the upload call, the validation, FAILED, a missing
\* URI, the generateContent call, an empty or unparsable text) ends the flow
\* in ERROR with the error's message.
C3_OnlyPollErrorsSwallowed ==
    [][ /\ (pc = "awaitGet" /\ observed' = Append(observed, "error"))
              => /\ fileData' = fileData
                 /\ fileData'.state = PROCESSING
                 /\ ingest' = ingest
                 /\ ingest'.st = "none"
                 /\ pc' = "waiting"
                 /\ waits' = waits + 1
                 /\ status' = status
        /\ (pc = "awaitUpload" /\ observed' = <<"error">>)
              => ingest'.st = "threw" /\ status' = ERROR
        /\ (pc = "awaitAnalysis" /\ response'.st = "rejected")
              => analyze'.st = "threw" /\ status' = ERROR
        /\ (ingest.st = "none" /\ ingest'.st = "threw")
              => /\ analyze' = Threw(ingest'.error)
                 /\ status' = ERROR
                 /\ errorMsg' = ingest'.error
        /\ (analyze.st = "none" /\ analyze'.st = "threw")
              => status' = ERROR /\ errorMsg' = analyze'.error
        /\ (ingest.st # "none" /\ "error" \in {observed[i] : i \in 2..Len(observed)}
              /\ observed[Len(observed)] = ACTIVE /\ ~Falsy(fileData.uri))
              => ingest.st = "returned"
      ]_vars

C3_Witness ==
    /\ Len(observed) >= 3
    /\ observed[2] = "error"
    /\ observed[Len(observed)] = ACTIVE
    /\ ingest.st = "returned"
    /\ status = THINKING

\* C4: an upload response that, once unwrapped, lacks the identifier or the
\* URI makes uploadMediaFile throw at once: no wait, no status fetch, no
\* "processing" report, and no analysis request.
C4_InvalidUploadAborts ==
    (uploadResult # <<>> /\ LacksNameOrUri(uploadResult[1]))
        => /\ ingest = IngestThrew(ErrInvalid)
           /\ analyze = Threw(ErrInvalid)
           /\ waits = 0
           /\ fetches = 0
           /\ events = <<"progress:uploading", "call:upload">>
           /\ response = NoResponse
           /\ status = ERROR
           /\ pc = "idle"

C4_Witness ==
    /\ uploadResult # <<>>
    /\ uploadResult[1].file # <<>>
    /\ ~Falsy(uploadResult[1].file[1].name)
    /\ Falsy(uploadResult[1].file[1].uri)
    /\ uploadResult[1].file[1].state = PROCESSING
    /\ ~Falsy(uploadResult[1].uri)
    /\ ingest.st = "threw"

\* the text is a JSON object that lacks a required field
LacksRequired(text) ==
    /\ ~EmptyText(text)
    /\ JSONParse(text[1]).ok
    /\ JSONParse(text[1]).value.kind = "object"
    /\ ~(Required \subseteq JSONParse(text[1]).value.keys)

\* C5: when the response text is valid JSON that lacks a required field,
\* analyzeMeetingMedia throws and no partially populated result is returned.
C5_MissingFieldThrows ==
    (response.st = "resolved" /\ LacksRequired(response.text))
        => analyze.st = "threw" /\ analysisResult = JsNull

\* C6: an empty or absent response text ends analyzeMeetingMedia with the
\* empty-response error, a text that is not valid JSON with the parse error;
\* either way nothing is returned and the App is in ERROR with analysisResult
\* null.
C6_EmptyOrUnparsable ==
    /\ (response.st = "resolved" /\ EmptyText(response.text))
          => /\ analyze = Threw(ErrNoResponse)
             /\ status = ERROR
             /\ errorMsg = ErrNoResponse
             /\ analysisResult = JsNull
    /\ (response.st = "resolved" /\ ~EmptyText(response.text)
          /\ ~JSONParse(response.text[1]).ok)
          => /\ analyze = Threw(ErrParse)
             /\ status = ERROR
             /\ errorMsg = ErrParse
             /\ analysisResult = JsNull

C6_Witness ==
    /\ response.st = "resolved"
    /\ response.text = << <<"{", "title", "summary">> >>
    /\ analyze = Threw(ErrParse)
    /\ status = ERROR

\* C10: the reports are ordered with the remote operations: "uploading" comes
\* right before the upload call, every wait is preceded by its own
\* "processing" report, the "deep analysis" report is made once, after
\* uploadMediaFile has returned and right before the one analysis request, and
\* a run whose upload fails has neither.
C10_ProgressOrder ==
    /\ \A i \in 1..Len(events) :
          /\ events[i] = "call:upload" => i = 2 /\ events[1] = "progress:uploading"
          /\ events[i] = "progress:uploading" => i = 1
          /\ events[i] = "wait" => i > 1 /\ events[i - 1] = "progress:processing"
          /\ events[i] = "progress:processing" => i < Len(events) /\ events[i + 1] = "wait"
          /\ events[i] = "call:get" => i > 1 /\ events[i - 1] = "wait"
          /\ events[i] = "call:generate"
                => /\ i = Len(events)
                   /\ events[i - 1] = "progress:deep"
                   /\ ingest.st = "returned"
          /\ events[i] = "progress:deep"
                => /\ i = Len(events) - 1
                   /\ events[i + 1] = "call:generate"
                   /\ ingest.st = "returned"
    /\ Count(events, "progress:processing") = waits
    /\ Count(events, "wait") = waits
    /\ Count(events, "call:get") = fetches
    /\ ingest.st = "returned"
          => Count(events, "progress:deep") = 1 /\ Count(events, "call:generate") = 1
    /\ ingest.st # "returned"
          => Count(events, "progress:deep") = 0 /\ Count(events, "call:generate") = 0
    /\ response.st # "none" => Count(events, "call:generate") = 1

C10_Witness ==
    /\ events = <<"progress:uploading", "call:upload", "progress:processing", "wait",
                  "call:get", "progress:processing", "wait", "call:get",
                  "progress:deep", "call:generate">>
    /\ analyze.st = "returned"
    /\ status = COMPLETED

-----------------------------------------------------------------------------
(* Properties of the follow-up services (specification ChatSpec) *)

RECURSIVE CharAt(_, _)
\* s.charAt(i), i counted from 0; "" past the end
CharAt(s, i) ==
    IF s = <<>> THEN ""
    ELSE IF i < s[1].n THEN s[1].ch
    ELSE CharAt(Tail(s), i - s[1].n)

\* every run is non-empty and adjacent runs differ in their character
WellFormed(s) ==
    /\ \A i \in 1..Len(s) : s[i].n >= 1
    /\ \A i \in 1..(Len(s) - 1) : s[i].ch # s[i + 1].ch

\* e is the string of the first characters of s: run by run, the last run
\* of e possibly cut short
IsPrefix(e, s) ==
    /\ Len(e) <= Len(s)
    /\ \A i \in 1..Len(e) :
          /\ e[i].ch = s[i].ch
          /\ IF i < Len(e) THEN e[i].n = s[i].n ELSE e[i].n <= s[i].n

\* C7: the systemInstruction of every chat call embeds exactly the first
\* 30,000 characters of contextData when contextData is longer, and the whole
\* of it otherwise; no character from index 30,000 on is in it.
C7_ContextTruncated ==
    \A i \in 1..Len(inflight) :
        inflight[i].fn = "chat"
            => LET ctx == inflight[i].contextData
                   emb == inflight[i].instruction.context
               IN  /\ WellFormed(emb)
                   /\ IsPrefix(emb, ctx)
                   /\ StrLen(emb) = (IF StrLen(ctx) > 30000 THEN 30000 ELSE StrLen(ctx))
                   /\ StrLen(ctx) <= 30000 => emb = ctx
                   /\ CharAt(emb, 29999) = CharAt(ctx, 29999)
                   /\ CharAt(emb, 30000) = ""
                   /\ inflight[i].instruction.head = InstructionHead
                   /\ inflight[i].instruction.tail = InstructionTail

C7_Witness ==
    \E i \in 1..Len(inflight) :
        /\ inflight[i].fn = "chat"
        /\ StrLen(inflight[i].contextData) > 30000
        /\ CharAt(inflight[i].contextData, 30000) = "c"
        /\ StrLen(inflight[i].instruction.context) = 30000
        /\ CharAt(inflight[i].instruction.context, 29999) = "b"

\* the grounding chunks of the example: [{web: {title: "A", uri: "http://a"}}, {}]
ExampleChunks == <<Chunk(<<LinkA>>, <<>>), Chunk(<<>>, <<>>)>>

RECURSIVE Links(_)
\* the web link of each chunk, else its entry-point link, chunks with neither
\* left out, in order
Links(cs) ==
    IF cs = <<>> THEN <<>>
    ELSE (IF Head(cs).web # <<>> THEN Head(cs).web
          ELSE IF Head(cs).entry_point # <<>> THEN Head(cs).entry_point
          ELSE <<>>) \o Links(Tail(cs))

\* C8 as stated: researchTopic, given the example chunks, returns the sources
\* [{title: "A", uri: "http://a"}].
C8_ResearchReturnsLinks ==
    (lastCall.fn = "research" /\ lastCall.outcome.st = "resolved"
        /\ lastCall.outcome.chunks = <<ExampleChunks>>)
        => lastCall.result.sources = <<LinkA>>

\* C8 amended: researchTopic returns the grounding chunks as they are (an
\* empty list when there are none); it is handleSend that maps each chunk to
\* its web link or else its entry-point link and leaves out the chunks with
\* neither, in order, so that the model message appended for the example
\* chunks has the sources [{title: "A", uri: "http://a"}]; without chunks the
\* message has no sources.
C8_SourcesMappedBySend ==
    [][ (lastCall'.n # lastCall.n /\ lastCall'.fn = "research"
            /\ lastCall'.outcome.st = "resolved")
        => LET cs == IF lastCall'.outcome.chunks = <<>> THEN <<>>
                     ELSE lastCall'.outcome.chunks[1]
           IN  /\ lastCall'.result.st = "returned"
               /\ lastCall'.result.sources = cs
               /\ Len(messages') = Len(messages) + 1
               /\ SubSeq(messages', 1, Len(messages)) = messages
               /\ messages'[Len(messages')].role = "model"
               /\ messages'[Len(messages')].content = lastCall'.result.text
               /\ messages'[Len(messages')].sources =
                      (IF cs = <<>> THEN <<>> ELSE <<Links(cs)>>)
               /\ cs = ExampleChunks
                      => messages'[Len(messages')].sources = << <<LinkA>> >>
      ]_vars

C8_Witness ==
    /\ lastCall.fn = "research"
    /\ lastCall.outcome.chunks = <<ExampleChunks>>
    /\ lastCall.result.sources = ExampleChunks
    /\ messages[Len(messages)].role = "model"
    /\ messages[Len(messages)].sources = << <<LinkA>> >>

\* C9: when the provider call of chatWithMeetingContext or researchTopic
\* rejects, the function rejects to its caller with that error and returns no
\* text, not even the fallback; a fallback string is returned only when the
\* call succeeded with an empty text.
C9_FailuresPropagate ==
    /\ lastCall.outcome.st = "rejected"
          => /\ lastCall.result.st = "threw"
             /\ lastCall.result.error = lastCall.outcome.error
             /\ lastCall.result.text = Undefined
    /\ (lastCall.result.st = "returned"
          /\ lastCall.result.text \in {FallbackChat, FallbackResearch})
          => /\ lastCall.outcome.st = "resolved"
             /\ lastCall.outcome.text \in {Undefined, ""}
             /\ lastCall.result.text =
                    (IF lastCall.fn = "chat" THEN FallbackChat ELSE FallbackResearch)
    /\ lastCall.result.st = "returned" => lastCall.outcome.st = "resolved"
    /\ (lastCall.fn # "none" /\ lastCall.result.st = "threw")
          => \E i \in 1..Len(messages) : messages[i] = Message("model", Apology, <<>>)

C9_Witness ==
    /\ lastCall.fn = "chat"
    /\ lastCall.outcome = Failed("network error")
    /\ lastCall.result.st = "threw"
    /\ lastCall.result.error = "network error"
    /\ messages[Len(messages)].content = Apology

-----------------------------------------------------------------------------
(* The end of a meeting flow (specification LiveSpec)                       *)

\* a meeting flow is under way / has ended
InFlow == status \in {UPLOADING, THINKING}
Terminal == status \in {COMPLETED, ERROR}
Polling == pc \in {"waiting", "awaitGet"}

\* one more step of the poll loop that leaves the flow where it is
PollsOn ==
    /\ LiveNext
    /\ pc' \in {"waiting", "awaitGet"}
    /\ pc' # pc
    /\ status' = status

\* the provider does not answer PROCESSING (or fail the fetch) for ever: the
\* handle held by the loop is again and again one that is not PROCESSING
LeavesProcessing == []<>(fileData.state # PROCESSING)

\* C11: a meeting flow that has started runs to COMPLETED or ERROR provided
\* that the remote file eventually leaves PROCESSING and a status fetch
\* eventually succeeds; and the poll loop has no retry cap or timeout: while
\* the flow polls, its status is UPLOADING or THINKING and one more turn of
\* the loop is always possible, so without that proviso the flow can stay in
\* a non-terminal status for ever.
C11_FlowEnds ==
    /\ LeavesProcessing => (InFlow ~> Terminal)
    /\ [](Polling => InFlow /\ ENABLED PollsOn)

\* a flow that waited MaxPolls times, saw a fetch fail, and completed
C11_Witness ==
    /\ status = COMPLETED
    /\ waits = MaxPolls
    /\ fetches = MaxPolls
    /\ Count(observed, "error") >= 1

\* without the proviso: every started flow ends (refuted by the run that
\* answers PROCESSING for ever)
C11_AlwaysEnds == InFlow ~> Terminal

-----------------------------------------------------------------------------
(* The status of App (specification Spec)                                   *)

\* no flow is in flight
AtRest == pc = "idle"

\* C12 (the completed state): status COMPLETED implies that analysisResult is
\* non-null and is what the most recently started meeting flow returned.
C12_CompletedHasResult ==
    status = COMPLETED
        => /\ analysisResult # JsNull
           /\ analyze = Returned(analysisResult)

\* the response text "null": the flow completes with a null result, and App
\* renders neither the dashboard nor the file input
C12_StuckCompleted ==
    /\ status = COMPLETED
    /\ analysisResult = JsNull
    /\ response = Resolved(<< <<"null">> >>)
    /\ ~ENABLED Reset
    /\ ~ENABLED HandleFileUpload

\* C12 (the other parts): a meeting flow goes from IDLE or ERROR to UPLOADING,
\* to THINKING only with the "Deep Thinking" report, then to COMPLETED or
\* ERROR; the file input is there only when no flow is in flight, so at most
\* one flow runs; and status leaves COMPLETED, ERROR and IDLE only by a reset
\* or a new file, never by a report of a flow.
C12_StatusPath ==
    [][ /\ (status' = UPLOADING /\ status # UPLOADING)
              => status \in {IDLE, ERROR} /\ AtRest /\ pc' = "awaitUpload"
        /\ (status' = THINKING /\ status # THINKING)
              => /\ status = UPLOADING
                 /\ progressText' = MsgThinking
                 /\ Count(events', "progress:deep") = 1
                 /\ Count(events, "progress:deep") = 0
        /\ (status' = COMPLETED /\ status # COMPLETED)
              => status = THINKING /\ analysisResult' = analyze'.value
        /\ (status \in {COMPLETED, ERROR, IDLE}) => AtRest
        /\ (status \in {COMPLETED, ERROR, IDLE} /\ status' # status)
              => \/ status = COMPLETED /\ status' = IDLE
                 \/ status \in {IDLE, ERROR} /\ analyze' \in {NotEnded, Threw(ErrNoKey)}
        /\ (AtRest /\ ~AtRest')
              => status \in {IDLE, ERROR} /\ waits' = 0 /\ observed' = <<>>
      ]_vars

-----------------------------------------------------------------------------
(* The conversation log of ChatInterface (specification ChatSpec)           *)

Roles(q) == [i \in 1..Len(q) |-> q[i].role]

\* model, user, model, user, ... from the greeting on
Alternating(q) == \A i \in 1..Len(q) : q[i].role = (IF i % 2 = 1 THEN "model" ELSE "user")

\* C13: the log alternates turn by turn, isLoading is true exactly while a
\* request is in flight, and no second send starts while a request is in
\* flight, whether by the button or by the Enter key.
C13_OneTurnAtATime ==
    /\ Len(inflight) <= 1
    /\ isLoading <=> (Len(inflight) > 0)
    /\ Alternating(messages)

\* Enter pressed twice: two requests in flight, two user messages in a row
C13_TwoInFlight ==
    /\ Len(inflight) = 2
    /\ Roles(messages) = <<"model", "user", "user">>

\* the reply to one of them has arrived: the button is enabled again while
\* the other request is still in flight
C13_IdleWhileInFlight ==
    /\ Len(inflight) = 1
    /\ ~isLoading
    /\ Roles(messages) = <<"model", "user", "user", "model">>

\* C13 (the log itself): the log only grows at its end, each send adds one
\* user message and each ended call one model message, reply or apology.
C13_AppendOnly ==
    [][ /\ Len(messages') >= Len(messages)
        /\ SubSeq(messages', 1, Len(messages)) = messages
        /\ sends' = sends + 1
              => /\ messages'[Len(messages) + 1] = Message("user", input, <<>>)
                 /\ Len(messages') = Len(messages) + (IF apiKey THEN 1 ELSE 2)
        /\ lastCall'.n = lastCall.n + 1
              => /\ messages'[Len(messages')] = ReplyMessage(lastCall'.result)
                 /\ Len(inflight') = Len(inflight) - (IF apiKey THEN 1 ELSE 0)
        /\ Count(Roles(messages'), "user") = sends'
        /\ Count(Roles(messages'), "model") = 1 + sends' - Len(inflight')
      ]_vars

====
